---- MODULE Spec2Model ----
(***************************************************************************)
(* The query-cache engine of leptos-query: the per-key Query state machine *)
(* (query.rs), its GarbageCollector (garbage_collector.rs), the            *)
(* QueryObserver subscription layer (query_observer.rs, use_query.rs) and  *)
(* the type-partitioned QueryCache registry (query_cache.rs).              *)
(*                                                                         *)
(* The build modelled is the client build (feature "csr"): cancellation    *)
(* races the fetch, refetch intervals exist and a persister hydrates new   *)
(* queries.  query_is_suppressed() is false throughout.                    *)
(*                                                                         *)
(* Time.  The code reads an Instant only through                           *)
(* time_until_stale(updated_at, d) = max(0, updated_at + d - now), so a    *)
(* timestamp is kept as its age, now - updated_at, which Tick increases.   *)
(* Ages saturate at MaxAge, which is at least every duration they are ever *)
(* compared with, so every comparison is exact.                            *)
(***************************************************************************)
EXTENDS Integers, Sequences, FiniteSets, TLC

\* ---------------------------------------------------------------- bounds
NumKeys == 2
NumTypes == 2
MaxInst == 2
NumObs == 2
MaxTasks == 2
MaxDur == 2
NumVals == 2
MaxResets == 2
MaxGcCalls == 3
NumConsumers == 2
\* the bits of the machine integer that stands for i64 in time_until_stale
IntBits == 4

\* the durations of test_gc (garbage_collector.rs), in seconds
TenSecs == 10
FiveSecs == 5

Keys == 1..NumKeys
Types == 1..NumTypes
Durations == 1..MaxDur
MaxAge == MaxDur
Values == 1..NumVals
Consumers == 1..NumConsumers
\* the value a persister holds for a key: none that a fetcher returns
PersistedValue == NumVals + 1

\* the (TypeId, TypeId) partition a key lives in
TypeOf(k) == ((k - 1) % NumTypes) + 1

\* Option<T>: None is the empty sequence, Some(x) the sequence <<x>>
None == << >>
Some(x) == << x >>
IsSome(opt) == Len(opt) = 1
Unwrap(opt) == opt[1]

Min(S) == CHOOSE x \in S : \A y \in S : x <= y
Max0(x) == IF x < 0 THEN 0 ELSE x

RECURSIVE Ascending(_)
\* the elements of a finite set of numbers, smallest first
Ascending(S) == IF S = {} THEN << >> ELSE << Min(S) >> \o Ascending(S \ {Min(S)})

\* ------------------------------------------------------------ QueryState
QueryData(v, age) == [value |-> v, age |-> age]
\* QueryData::now
QueryDataNow(v) == QueryData(v, 0)

Created == [tag |-> "Created"]
Loading == [tag |-> "Loading"]
Fetching(d) == [tag |-> "Fetching", data |-> d]
Loaded(d) == [tag |-> "Loaded", data |-> d]
Invalid(d) == [tag |-> "Invalid", data |-> d]

HasData(s) == s.tag \in {"Fetching", "Loaded", "Invalid"}
\* QueryState::updated_at, as an age
UpdatedAt(s) == IF HasData(s) THEN Some(s.data.age) ELSE None

time_until_stale_early(age, stale_time) == Max0(stale_time - age - 1)

\* time_until_stale(updated_at, stale_time), updated_at given as an age
time_until_stale(age, stale_time) == Max0(stale_time - age)

\* time_until_stale as the code computes it, on instants and durations given
\* in milliseconds.  `x as i64` keeps the low bits of x, read as a signed number
AsI64(x) ==
    LET m == x % (2 ^ IntBits)
    IN  IF m >= 2 ^ (IntBits - 1) THEN m - 2 ^ IntBits ELSE m

\* (updated_at + stale_time) - now leaves the range of i64: a build with
\* overflow checks panics there, a build without wraps around
Overflows(updated_at, stale_time, now) ==
    LET sum == AsI64(updated_at) + AsI64(stale_time)
    IN  \/ AsI64(sum) # sum
        \/ AsI64(sum - AsI64(now)) # sum - AsI64(now)

time_until_stale_at(updated_at, stale_time, now) ==
    LET sum == AsI64(AsI64(updated_at) + AsI64(stale_time))
        result == AsI64(sum - AsI64(now))
    IN  Max0(result)

\* Query::is_stale on instants: updated_at an Option, stale_times the
\* stale_time options of the subscribed observers; checked says whether the
\* build checks overflow
is_stale_at(updated_at, stale_times, now, checked) ==
    LET given == {Unwrap(stale_times[i]) :
                    i \in {j \in DOMAIN stale_times : IsSome(stale_times[j])}}
    IN  IF IsSome(updated_at) /\ given # {}
        THEN IF checked /\ Overflows(Unwrap(updated_at), Min(given), now)
             THEN [panicked |-> TRUE, stale |-> FALSE]
             ELSE [panicked |-> FALSE,
                   stale |-> time_until_stale_at(Unwrap(updated_at), Min(given), now) = 0]
        ELSE [panicked |-> FALSE, stale |-> FALSE]

\* ---------------------------------------------------------------- GcTime
GcNone == [kind |-> "None"]
GcSome(d) == [kind |-> "Some", d |-> d]
GcNever == [kind |-> "Never"]

from_option(duration) == IF IsSome(duration) THEN GcSome(Unwrap(duration)) ELSE GcNone

update_gc_time_skip_never(cur, gc_time) ==
    IF cur.kind = "None" THEN from_option(gc_time)
    ELSE IF cur.kind = "Some" /\ IsSome(gc_time) /\ Unwrap(gc_time) > cur.d
         THEN GcSome(Unwrap(gc_time))
    ELSE cur

update_gc_time_last_wins(cur, gc_time) ==
    IF cur.kind = "None" THEN from_option(gc_time)
    ELSE IF cur.kind = "Some" /\ IsSome(gc_time) THEN GcSome(Unwrap(gc_time))
    ELSE IF cur.kind = "Some" /\ ~IsSome(gc_time) THEN GcNever
    ELSE cur

\* GarbageCollector::update_gc_time: the new value of self.gc_time
update_gc_time(cur, gc_time) ==
    IF cur.kind = "None" THEN from_option(gc_time)
    ELSE IF cur.kind = "Some" /\ IsSome(gc_time) /\ Unwrap(gc_time) > cur.d
         THEN GcSome(Unwrap(gc_time))
    ELSE IF cur.kind = "Some" /\ ~IsSome(gc_time) THEN GcNever
    ELSE cur

\* ---------------------------------------------------------------- events
EvCreated(q) == [type |-> "Created", q |-> q]
EvUpdated(q) == [type |-> "Updated", q |-> q]
EvObserverAdded(k, options) == [type |-> "ObserverAdded", key |-> k, options |-> options]
EvObserverRemoved(k) == [type |-> "ObserverRemoved", key |-> k]
EvRemoved(k) == [type |-> "Removed", key |-> k]

\* ------------------------------------------------------------- variables
VARIABLES
    cache,       \* QueryCache.cache: partition -> (key -> Query instance)
    consumers,   \* QueryCache.observers: the CacheObservers and the events each got
    size,        \* QueryCache.size
    resets,      \* queued microtasks of clear_all_queries (size.set(0))
    persister,   \* QueryCache.persister is Some
    queries,     \* every Query instance ever created, by instance number
    observers,   \* every QueryObserver, by slot
    tasks,       \* the spawned execute_query tasks, by slot
    gc,          \* a stand-alone GarbageCollector.gc_time (test_gc's fixture)
    gcCalls,     \* the update_gc_time requests made on it, oldest first
    gcPrev,      \* its gc_time before the last request
    probe        \* the last call of time_until_stale / is_stale on given instants

vars == << cache, consumers, size, resets, persister, queries, observers, tasks, gc,
          gcCalls, gcPrev, probe >>


\* ------------------------------------------------ the program as one value
\* Every operation below is a function from the program's state to its state
\* after the call.  events: the CacheEvents announced so far by the running
\* operation; notified: the listener invocations <<observer, state>> it made;
\* locks: the Mutexes it holds; under: the handlers (listeners, CacheObservers)
\* it has called while it held a Mutex, with that Mutex;
\* overflow: the operation needed more instances, tasks or microtasks than the
\* bounds provide.
World ==
    [ cache |-> cache, consumers |-> consumers, size |-> size, resets |-> resets,
      persister |-> persister, queries |-> queries, observers |-> observers, tasks |-> tasks,
      events |-> << >>, notified |-> {}, overflow |-> FALSE,
      locks |-> {}, under |-> {} ]

\* no call probed yet
NoProbe == [called |-> FALSE]

FreeTask == [pc |-> "free", q |-> 0, branch |-> "-", fetch |-> None,
             cancelled |-> FALSE, start |-> Created]

NoOptions == [gc_time |-> None, stale_time |-> None, refetch_interval |-> None]

FreeObserver == [status |-> "new", query |-> None, fetcher |-> FALSE, options |-> NoOptions,
                 refetch |-> FALSE, listeners |-> 0, memo |-> 0, effect |-> "none"]

\* Mutex::lock, and the drop of its guard; a Mutex is <<"observers", q>> of
\* Query q or <<"cache", 0>> of the registry
Lock(W, l) == [W EXCEPT !.locks = @ \cup {l}]
Unlock(W, l) == [W EXCEPT !.locks = @ \ {l}]

\* CacheObserver::process_cache_event of consumer c
Process(W, c, ev) ==
    [W EXCEPT !.consumers[c].received = Append(@, ev),
              !.under = @ \cup {<<"consumer", c, l>> : l \in W.locks}]

RECURSIVE NotifyEach(_, _, _)
NotifyEach(W, cs, ev) ==
    IF cs = << >> THEN W ELSE NotifyEach(Process(W, Head(cs), ev), Tail(cs), ev)

\* QueryCache::notify_observers
Notify(W, ev) ==
    NotifyEach([W EXCEPT !.events = Append(@, ev)],
               Ascending({c \in DOMAIN W.consumers : W.consumers[c].status = "registered"}),
               ev)

\* ------------------------------------------------------ garbage_collector.rs
\* GarbageCollector::enable_gc
enable_gc(W, q) ==
    LET Q == W.queries[q]
        updated_at == UpdatedAt(Q.state)
    IN  IF IsSome(Q.handle) THEN W
        ELSE IF Q.gc_time.kind = "Some" /\ IsSome(updated_at)
             THEN [W EXCEPT !.queries[q].handle =
                      Some([pending |-> TRUE,
                            remaining |-> time_until_stale(Unwrap(updated_at), Q.gc_time.d)])]
        ELSE W

\* GarbageCollector::disable_gc
disable_gc(W, q) == [W EXCEPT !.queries[q].handle = None]

\* ------------------------------------------------------------------ query.rs
\* Query::new, with GarbageCollector::new
NewQuery(k, hydrating) ==
    [ key |-> k, state |-> Created, current_request |-> None, observers |-> {},
      gc_time |-> GcNone, handle |-> None, hydrating |-> hydrating ]

HasFetcher(W, q) == \E o \in W.queries[q].observers : W.observers[o].fetcher

\* spawn_local(execute_query(..)): the task runs later
Spawn(W, q) ==
    LET free == {t \in 1..MaxTasks : W.tasks[t].pc = "free"}
    IN  IF free = {} THEN [W EXCEPT !.overflow = TRUE]
        ELSE [W EXCEPT !.tasks[Min(free)] = [FreeTask EXCEPT !.pc = "spawned", !.q = q]]

\* the observers whose fetcher execute's find_map may return: observers is a
\* HashMap, whose iteration order is unspecified
FetcherCarriers(W, q) == {o \in W.queries[q].observers : W.observers[o].fetcher}

execute_unchecked(W, q) == Spawn(W, q)

\* Query::execute
execute(W, q) == IF HasFetcher(W, q) THEN Spawn(W, q) ELSE W

set_state_without_execute(W, q, s) ==
    Notify([W EXCEPT !.queries[q].state = s], EvUpdated(q))

\* Query::set_state
set_state(W, q, s) ==
    LET heard == {o \in W.queries[q].observers : W.observers[o].listeners > 0}
        W0 == Lock(W, <<"observers", q>>)
        W1 == [Unlock([W0 EXCEPT
                          !.notified = @ \cup {<<o, s, W.queries[q].state>> : o \in heard},
                          !.under = @ \cup {<<"listener", o, l>> : o \in heard, l \in W0.locks}],
                      <<"observers", q>>)
                 EXCEPT !.queries[q].state = s]
        W2 == Notify(W1, EvUpdated(q))
    IN  IF s.tag = "Invalid" THEN execute(W2, q) ELSE W2

\* Query::is_stale
is_stale(W, q) ==
    LET stale_times == {Unwrap(W.observers[o].options.stale_time) :
                          o \in {p \in W.queries[q].observers :
                                   IsSome(W.observers[p].options.stale_time)}}
        updated_at == UpdatedAt(W.queries[q].state)
    IN  /\ IsSome(updated_at)
        /\ stale_times # {}
        /\ time_until_stale(Unwrap(updated_at), Min(stale_times)) = 0

needs_execute_unless_invalid(W, q) ==
    \/ W.queries[q].state.tag = "Created"
    \/ is_stale(W, q)

\* Query::needs_execute
needs_execute(W, q) ==
    \/ W.queries[q].state.tag = "Created"
    \/ W.queries[q].state.tag = "Invalid"
    \/ is_stale(W, q)

\* Query::ensure_execute
ensure_execute(W, q) == IF needs_execute(W, q) THEN execute(W, q) ELSE W

MarksAnyData(s) == HasData(s)

\* the pattern of mark_invalid's closure: if let QueryState::Loaded(data) = state
MarksInvalid(s) == s.tag = "Loaded"

\* Query::mark_invalid, through maybe_map_state
mark_invalid(W, q) ==
    LET s == W.queries[q].state
    IN  IF MarksInvalid(s) THEN set_state(W, q, Invalid(s.data)) ELSE W

\* Query::update_gc_time
QueryUpdateGcTime(W, q, gc_time) ==
    [W EXCEPT !.queries[q].gc_time = update_gc_time(@, gc_time)]

subscribe_keeps_timer(W, q, o) ==
    IF o \in W.queries[q].observers THEN W
    ELSE LET W1 == [W EXCEPT !.queries[q].observers = @ \cup {o}]
             W3 == QueryUpdateGcTime(W1, q, W.observers[o].options.gc_time)
         IN  Notify(W3, EvObserverAdded(W.queries[q].key, W.observers[o].options))

subscribe_again(W, q, o) ==
    LET W1 == [W EXCEPT !.queries[q].observers = @ \cup {o}]
        W2 == disable_gc(W1, q)
        W3 == QueryUpdateGcTime(W2, q, W.observers[o].options.gc_time)
    IN  Notify(W3, EvObserverAdded(W.queries[q].key, W.observers[o].options))

\* Query::subscribe
subscribe(W, q, o) ==
    IF o \in W.queries[q].observers THEN W
    ELSE LET W1 == [Lock(W, <<"observers", q>>) EXCEPT !.queries[q].observers = @ \cup {o}]
             W2 == disable_gc(W1, q)
             W3 == QueryUpdateGcTime(W2, q, W.observers[o].options.gc_time)
         IN  Unlock(Notify(W3, EvObserverAdded(W.queries[q].key, W.observers[o].options)),
                    <<"observers", q>>)

unsubscribe_resets_policy(W, q, o) ==
    LET W1 == IF o \in W.queries[q].observers
              THEN Notify([W EXCEPT !.queries[q].observers = @ \ {o}],
                          EvObserverRemoved(W.queries[q].key))
              ELSE W
    IN  IF W1.queries[q].observers = {}
        THEN enable_gc([W1 EXCEPT !.queries[q].gc_time = GcNone], q)
        ELSE W1

\* Query::unsubscribe
unsubscribe(W, q, o) ==
    LET W1 == IF o \in W.queries[q].observers
              THEN Unlock(Notify([Lock(W, <<"observers", q>>)
                                     EXCEPT !.queries[q].observers = @ \ {o}],
                                 EvObserverRemoved(W.queries[q].key)),
                          <<"observers", q>>)
              ELSE W
    IN  IF W1.queries[q].observers = {} THEN enable_gc(W1, q) ELSE W1

cancel_keeps_token(W, q) ==
    LET cur == W.queries[q].current_request
    IN  IF IsSome(cur) THEN [W EXCEPT !.tasks[Unwrap(cur)].cancelled = TRUE] ELSE W

\* Query::cancel: the world after it, and its result
cancel(W, q) ==
    LET cur == W.queries[q].current_request
    IN  IF IsSome(cur)
        THEN [W EXCEPT !.queries[q].current_request = None,
                       !.tasks[Unwrap(cur)].cancelled = TRUE]
        ELSE W

cancel_result(W, q) == IsSome(W.queries[q].current_request)

\* Query::mark_invalid: its result
mark_invalid_result(W, q) == MarksInvalid(W.queries[q].state)

\* Query::finalize_execution: the slot is emptied; a Sender still in it is
\* dropped, which resolves its Receiver (with Err(Canceled))
finalize_execution(W, q) ==
    LET cur == W.queries[q].current_request
        W1 == [W EXCEPT !.queries[q].current_request = None]
    IN  IF IsSome(cur) /\ W.tasks[Unwrap(cur)].pc = "awaiting"
        THEN [W1 EXCEPT !.tasks[Unwrap(cur)].cancelled = TRUE]
        ELSE W1

\* ------------------------------------------------------------ query_cache.rs
\* a HashMap with one more entry, and with one entry less
Insert(f, x, v) == [y \in DOMAIN f \cup {x} |-> IF y = x THEN v ELSE f[y]]
Remove(f, x) == [y \in DOMAIN f \ {x} |-> f[y]]

\* QueryCache::get_query
get_query(W, k) ==
    IF TypeOf(k) \in DOMAIN W.cache /\ k \in DOMAIN W.cache[TypeOf(k)]
    THEN Some(W.cache[TypeOf(k)][k])
    ELSE None

\* the sizes of the typed partitions, summed (the real_size of QueryCache::size)
RECURSIVE SumSizes(_, _)
SumSizes(c, ts) ==
    IF ts = {} THEN 0
    ELSE LET t == Min(ts) IN Cardinality(DOMAIN c[t]) + SumSizes(c, ts \ {t})

real_size(c) == SumSizes(c, DOMAIN c)

get_or_create_query_counts_hits(W, k) ==
    LET t == TypeOf(k)
        W0 == IF t \in DOMAIN W.cache THEN W ELSE [W EXCEPT !.cache = Insert(@, t, << >>)]
        q == Len(W.queries) + 1
    IN  IF k \in DOMAIN W0.cache[t] THEN [W0 EXCEPT !.size = @ + 1]
        ELSE IF q > MaxInst THEN [W EXCEPT !.overflow = TRUE]
        ELSE LET W1 == [W0 EXCEPT !.queries = Append(@, NewQuery(k, W.persister))]
                 W2 == Notify(W1, EvCreated(q))
             IN  [W2 EXCEPT !.cache[t] = Insert(@, k, q), !.size = @ + 1]

\* QueryCache::get_or_create_query; the Query it returns is get_query of the result
get_or_create_query(W, k) ==
    LET t == TypeOf(k)
        \* use_cache creates the partition
        W0 == IF t \in DOMAIN W.cache THEN W ELSE [W EXCEPT !.cache = Insert(@, t, << >>)]
        q == Len(W.queries) + 1
    IN  IF k \in DOMAIN W0.cache[t] THEN W0
        ELSE IF q > MaxInst THEN [W EXCEPT !.overflow = TRUE]
        ELSE LET W1 == [Lock(W0, <<"cache", 0>>) EXCEPT
                           !.queries = Append(@, NewQuery(k, W.persister))]
                 W2 == Notify(W1, EvCreated(q))
             IN  [Unlock(W2, <<"cache", 0>>) EXCEPT !.cache[t] = Insert(@, k, q), !.size = @ + 1]

evict_query_keeps_entry(W, k) ==
    IF IsSome(get_query(W, k))
    THEN LET W2 == Notify(W, EvRemoved(k))
         IN  [W2 EXCEPT !.size = IF @ > 0 THEN @ - 1 ELSE @]
    ELSE W

evict_query_unguarded(W, k) ==
    IF IsSome(get_query(W, k))
    THEN LET W1 == [W EXCEPT !.cache[TypeOf(k)] = Remove(@, k)]
             W2 == Notify(W1, EvRemoved(k))
         IN  [W2 EXCEPT !.size = @ - 1]
    ELSE W

\* QueryCache::evict_query: the world after it, and its result
evict_query(W, k) ==
    IF IsSome(get_query(W, k))
    THEN LET W1 == [W EXCEPT !.cache[TypeOf(k)] = Remove(@, k)]
             W2 == Notify(W1, EvRemoved(k))
         IN  [W2 EXCEPT !.size = IF @ > 0 THEN @ - 1 ELSE @]
    ELSE W

evict_query_result(W, k) == IsSome(get_query(W, k))

\* the keys of every partition (HashMap order is unspecified: smallest first)
CachedKeys(W) == UNION {DOMAIN W.cache[t] : t \in DOMAIN W.cache}

NotifyRemovedFirst(W, ks) ==
    IF ks = << >> THEN W ELSE Notify(W, EvRemoved(Head(ks)))

RECURSIVE NotifyRemoved(_, _)
NotifyRemoved(W, ks) ==
    IF ks = << >> THEN W ELSE NotifyRemoved(Notify(W, EvRemoved(Head(ks))), Tail(ks))

clear_all_queries_keeps_entries(W) ==
    LET W1 == NotifyRemoved(W, Ascending(CachedKeys(W)))
    IN  IF W.resets >= MaxResets THEN [W EXCEPT !.overflow = TRUE]
        ELSE [W1 EXCEPT !.resets = @ + 1]

\* QueryCache::clear_all_queries, with CacheEntry::clear; the size reset is a
\* queued microtask
clear_all_queries(W) ==
    LET W1 == Unlock(NotifyRemoved(Lock(W, <<"cache", 0>>), Ascending(CachedKeys(W))), <<"cache", 0>>)
        W2 == [W1 EXCEPT !.cache = [t \in DOMAIN W.cache |-> << >>]]
    IN  IF W.resets >= MaxResets THEN [W EXCEPT !.overflow = TRUE]
        ELSE [W2 EXCEPT !.resets = @ + 1]

RECURSIVE Replay(_, _, _)
\* CacheEntry::update_observer, for the instances qs
Replay(W, c, qs) ==
    IF qs = << >> THEN W ELSE Replay(Process(W, c, EvCreated(Head(qs))), c, Tail(qs))

register_observer_broadcast(W, c) ==
    LET W1 == [W EXCEPT !.consumers[c].status = "registered"]
        qs == Ascending({W.cache[TypeOf(k)][k] : k \in CachedKeys(W)})
    IN  IF qs = << >> THEN W1
        ELSE [NotifyEach(W1, Ascending({d \in DOMAIN W1.consumers :
                                          W1.consumers[d].status = "registered"}),
                         EvCreated(Head(qs)))
                 EXCEPT !.consumers[c].received = Replay(W, c, qs).consumers[c].received]

\* QueryCache::register_observer
register_observer(W, c) ==
    LET W1 == Replay(Lock(W, <<"cache", 0>>), c,
                     Ascending({W.cache[TypeOf(k)][k] : k \in CachedKeys(W)}))
    IN  [Unlock(W1, <<"cache", 0>>) EXCEPT !.consumers[c].status = "registered"]

RECURSIVE MarkAll(_, _)
MarkAll(W, qs) ==
    IF qs = << >> THEN W ELSE MarkAll(mark_invalid(W, Head(qs)), Tail(qs))

invalidate_all_queries_first_partition(W) ==
    IF DOMAIN W.cache = {} THEN W
    ELSE LET t == Min(DOMAIN W.cache)
         IN  MarkAll(W, Ascending({W.cache[t][k] : k \in DOMAIN W.cache[t]}))

\* QueryCache::invalidate_all_queries, with CacheEntry::invalidate
invalidate_all_queries(W) ==
    Unlock(MarkAll(Lock(W, <<"cache", 0>>), Ascending({W.cache[TypeOf(k)][k] : k \in CachedKeys(W)})),
           <<"cache", 0>>)

\* ----------------------------------------------------- query.rs: execute_query
ExecBranchRetry(s) ==
    IF s.tag \in {"Created", "Loading"} THEN "first" ELSE "refresh"

\* the arm of execute_query's match on query.get_state()
ExecBranch(s) ==
    IF s.tag = "Created" THEN "first"
    ELSE IF s.tag \in {"Loaded", "Invalid"} THEN "refresh"
    ELSE "already"

\* execute_query from its start to its first await
execute_query_start(W, t) ==
    LET q == W.tasks[t].q
        s == W.queries[q].state
    IN  \* new_execution returned None
        IF IsSome(W.queries[q].current_request) THEN [W EXCEPT !.tasks[t] = FreeTask]
        ELSE LET W1 == [W EXCEPT !.queries[q].current_request = Some(t)]
                 await == [W.tasks[t] EXCEPT !.pc = "awaiting", !.branch = ExecBranch(s),
                                             !.start = s]
             IN  IF ExecBranch(s) = "first"
                 THEN [set_state(W1, q, Loading) EXCEPT !.tasks[t] = await]
                 ELSE IF ExecBranch(s) = "refresh"
                 THEN [set_state(W1, q, Fetching(s.data)) EXCEPT !.tasks[t] = await]
                 ELSE [finalize_execution(W1, q) EXCEPT !.tasks[t] = FreeTask]

SelectCancelFirst(task) ==
    IF task.cancelled THEN "Err" ELSE "Ok"

\* execute_with_cancellation: select polls the fetch before the Receiver
Select(task) ==
    IF IsSome(task.fetch) THEN "Ok" ELSE "Err"

CancelledRefresh_keeps_fetching(s) == s

\* the closure of the refresh arm's maybe_map_state
CancelledRefresh(s) == IF s.tag = "Fetching" THEN Loaded(s.data) ELSE s

\* execute_query from the await to its end
execute_query_resume(W, t) ==
    LET task == W.tasks[t]
        q == task.q
        s == W.queries[q].state
        W1 == IF Select(task) = "Ok"
              THEN set_state(W, q, Loaded(QueryDataNow(Unwrap(task.fetch))))
              ELSE IF task.branch = "first" THEN set_state(W, q, Created)
              ELSE IF CancelledRefresh(s) # s THEN set_state(W, q, CancelledRefresh(s))
              ELSE W
    IN  [finalize_execution(W1, q) EXCEPT !.tasks[t] = FreeTask]

hydrate_completes_load(W, q, result) ==
    LET s == W.queries[q].state
        W1 == [W EXCEPT !.queries[q].hydrating = FALSE]
    IN  IF s.tag = "Loaded" \/ ~IsSome(result) THEN W1
        ELSE set_state(W1, q, Loaded(Unwrap(result)))

\* the hydration task of get_or_create_query, once persister.retrieve resolves
\* with result (None, or Some(data) that deserializes)
hydrate(W, q, result) ==
    LET s == W.queries[q].state
        W1 == [W EXCEPT !.queries[q].hydrating = FALSE]
    IN  IF s.tag = "Loaded" \/ ~IsSome(result) THEN W1
        ELSE IF s.tag \in {"Loading", "Fetching"}
             THEN set_state(W1, q, Fetching(Unwrap(result)))
        ELSE set_state(W1, q, Loaded(Unwrap(result)))

\* --------------------------------------------------------- query_observer.rs
\* QueryObserver::with_fetcher
with_fetcher(W, o, options, q) ==
    LET W1 == [W EXCEPT !.observers[o] =
                  [FreeObserver EXCEPT !.status = "alive", !.query = Some(q),
                                       !.fetcher = TRUE, !.options = options,
                                       !.refetch = IsSome(options.refetch_interval)]]
        W2 == subscribe(W1, q, o)
    IN  IF is_stale(W2, q) THEN execute(W2, q) ELSE W2

\* QueryObserver::no_fetcher
no_fetcher(W, o, options, query) ==
    LET W1 == [W EXCEPT !.observers[o] =
                  [FreeObserver EXCEPT !.status = "alive", !.query = query,
                                       !.options = options]]
    IN  IF IsSome(query) THEN subscribe(W1, Unwrap(query), o) ELSE W1

update_query_stays_subscribed(W, o, new_query) ==
    LET cur == W.observers[o].query
        is_same_query == /\ IsSome(cur)
                         /\ IsSome(new_query)
                         /\ W.queries[Unwrap(new_query)].key = W.queries[Unwrap(cur)].key
    IN  IF is_same_query THEN W
        ELSE LET W2 == [W EXCEPT !.observers[o].query = new_query]
             IN  IF IsSome(new_query)
                 THEN ensure_execute(subscribe(W2, Unwrap(new_query), o), Unwrap(new_query))
                 ELSE W2

\* QueryObserver::update_query
update_query(W, o, new_query) ==
    LET cur == W.observers[o].query
        is_same_query == /\ IsSome(cur)
                         /\ IsSome(new_query)
                         /\ W.queries[Unwrap(new_query)].key = W.queries[Unwrap(cur)].key
    IN  IF is_same_query THEN W
        ELSE LET W1 == IF IsSome(cur) THEN unsubscribe(W, Unwrap(cur), o) ELSE W
                 W2 == [W1 EXCEPT !.observers[o].query = new_query]
             IN  IF IsSome(new_query)
                 THEN ensure_execute(subscribe(W2, Unwrap(new_query), o), Unwrap(new_query))
                 ELSE W2

cleanup_keeps_interval(W, o) ==
    LET cur == W.observers[o].query
        W1 == IF IsSome(cur) THEN unsubscribe(W, Unwrap(cur), o) ELSE W
    IN  [W1 EXCEPT !.observers[o].query = None]

\* QueryObserver::cleanup
cleanup(W, o) ==
    LET cur == W.observers[o].query
        W1 == IF IsSome(cur) THEN unsubscribe(W, Unwrap(cur), o) ELSE W
    IN  [W1 EXCEPT !.observers[o].query = None, !.observers[o].refetch = FALSE]

\* ------------------------------------------------------------------- actions
Instances == 1..Len(queries)
Slots == 1..NumObs
TaskIds == 1..MaxTasks

\* the options an observer may be built with
GcTimes == {None} \cup {Some(d) : d \in Durations}
StaleTimes == {None} \cup {Some(d) : d \in Durations}
RefetchIntervals == {None, Some(1)}
FetcherOptions ==
    {[gc_time |-> g, stale_time |-> s, refetch_interval |-> r] :
        g \in GcTimes, s \in StaleTimes, r \in RefetchIntervals}
PassiveOptions ==
    {[gc_time |-> g, stale_time |-> s, refetch_interval |-> None] :
        g \in GcTimes, s \in StaleTimes}
Bindings == {None} \cup {Some(q) : q \in Instances}

\* what a persister may return for a key
Persisted == {None} \cup {Some(QueryData(PersistedValue, a)) : a \in 0..MaxAge}

\* the operation ran to its end within the bounds: W is the program's next state
Store(W) ==
    /\ ~W.overflow
    /\ cache' = W.cache
    /\ consumers' = W.consumers
    /\ size' = W.size
    /\ resets' = W.resets
    /\ persister' = W.persister
    /\ queries' = W.queries
    /\ observers' = W.observers
    /\ tasks' = W.tasks

Commit(W) == Store(W) /\ UNCHANGED << gc, gcCalls, gcPrev, probe >>

\* an observer is built in the lowest unused slot
NextSlot(o) == /\ observers[o].status = "new"
               /\ \A p \in Slots : p < o => observers[p].status # "new"

\* the operation that led from W0 to W spawned an execute_query task for q
SpawnedFor(W0, W, q) ==
    \E t \in TaskIds : W0.tasks[t].pc = "free" /\ W.tasks[t].pc = "spawned" /\ W.tasks[t].q = q

GetOrCreateQuery(k) == Commit(get_or_create_query(World, k))

EvictQuery(k) == Commit(evict_query(World, k))

ClearAllQueries == Commit(clear_all_queries(World))

\* the microtask queued by clear_all_queries
reset_size(W) == [W EXCEPT !.size = 0, !.resets = @ - 1]

ResetSize == resets > 0 /\ Commit(reset_size(World))

InvalidateAllQueries == Commit(invalidate_all_queries(World))

\* a CacheObserver is registered once, under a key of its own
RegisterObserver(c) ==
    consumers[c].status = "new" /\ Commit(register_observer(World, c))

\* QueryCache::unregister_observer
UnregisterObserver(c) ==
    /\ consumers[c].status = "registered"
    /\ Commit([World EXCEPT !.consumers[c].status = "unregistered"])

\* QueryCache::add_persister
AddPersister == ~persister /\ Commit([World EXCEPT !.persister = TRUE])

\* QueryCache::remove_persister
RemovePersister == persister /\ Commit([World EXCEPT !.persister = FALSE])

Hydrate(q, result) == queries[q].hydrating /\ Commit(hydrate(World, q, result))

\* use_query up to its return: the memo's get_or_create_query,
\* register_observer_handle_cleanup's with_fetcher, and the first read
use_query(W, o, k, options) ==
    LET W1 == get_or_create_query(W, k)
        q == Unwrap(get_query(W1, k))
        W2 == with_fetcher(W1, o, options, q)
        W3 == IF W2.queries[q].state.tag = "Created" THEN execute(W2, q) ELSE W2
    IN  IF W1.overflow THEN W1
        ELSE [W3 EXCEPT !.observers[o].memo = q, !.observers[o].effect = "pending"]

UseQuery(o, k, options) == NextSlot(o) /\ Commit(use_query(World, o, k, options))

\* the Effect of register_observer_handle_cleanup: add_listener, then
\* update_query with the memo's Query
use_query_effect(W, o) ==
    LET q == W.observers[o].memo
        W1 == [W EXCEPT !.observers[o].listeners = 1]
        W2 == update_query(W1, o, Some(q))
    IN  [W2 EXCEPT !.observers[o].effect = "done"]

UseQueryEffect(o) ==
    /\ observers[o].status = "alive"
    /\ observers[o].effect = "pending"
    /\ Commit(use_query_effect(World, o))

NewPassive(o, options, query) ==
    NextSlot(o) /\ Commit(no_fetcher(World, o, options, query))

UpdateQuery(o, new_query) ==
    /\ observers[o].status = "alive"
    /\ observers[o].effect # "pending"
    /\ Commit(update_query(World, o, new_query))

\* the on_cleanup of register_observer_handle_cleanup: remove_listener, cleanup
\* The observer is then dropped; the clone a Query may still hold in its
\* observer set keeps the fetcher and the options
on_cleanup(W, o) ==
    LET W1 == cleanup([W EXCEPT !.observers[o].listeners = 0], o)
        held == \E q \in DOMAIN W1.queries : o \in W1.queries[q].observers
    IN  [W1 EXCEPT !.observers[o] =
            IF held THEN [@ EXCEPT !.status = "cleaned"]
            ELSE [FreeObserver EXCEPT !.status = "cleaned"]]

Cleanup(o) == observers[o].status = "alive" /\ Commit(on_cleanup(World, o))

\* the interval callback of with_fetcher
RefetchTick(o) ==
    /\ observers[o].refetch
    /\ IsSome(observers[o].query)
    /\ Commit(execute(World, Unwrap(observers[o].query)))

\* Query::execute called by a holder of the Query (QueryResult::refetch)
Execute(q) == Commit(execute(World, q))

\* Query::execute, with the observer whose fetcher find_map returned (None:
\* no observer carries one) kept for inspection, once
ExecutePick(q, fetcher) ==
    /\ ~probe.called
    /\ fetcher \in (IF HasFetcher(World, q)
                    THEN {Some(o) : o \in FetcherCarriers(World, q)}
                    ELSE {None})
    /\ Store(execute(World, q))
    /\ probe' = [called |-> TRUE, q |-> q, carriers |-> FetcherCarriers(World, q),
                 fetcher |-> fetcher]
    /\ UNCHANGED << gc, gcCalls, gcPrev >>

Cancel(q) == Commit(cancel(World, q))

MarkInvalid(q) == Commit(mark_invalid(World, q))

TaskStart(t) == tasks[t].pc = "spawned" /\ Commit(execute_query_start(World, t))

\* the fetcher's future becomes ready with value v
FetchResolve(t, v) ==
    /\ tasks[t].pc = "awaiting"
    /\ ~IsSome(tasks[t].fetch)
    /\ Commit([World EXCEPT !.tasks[t].fetch = Some(v)])

\* an awaiting task can be polled: its fetch or its Receiver is ready
Ready(task) == task.pc = "awaiting" /\ (IsSome(task.fetch) \/ task.cancelled)

TaskResume(t) == Ready(tasks[t]) /\ Commit(execute_query_resume(World, t))

Older(age) == IF age < MaxAge THEN age + 1 ELSE age

AgeState(s) == IF HasData(s) THEN [s EXCEPT !.data.age = Older(@)] ELSE s

AgeHandle(h) ==
    IF IsSome(h) /\ Unwrap(h).pending /\ Unwrap(h).remaining > 0
    THEN Some([Unwrap(h) EXCEPT !.remaining = @ - 1])
    ELSE h

\* one unit of time passes
tick(W) ==
    [W EXCEPT
       !.queries = [q \in DOMAIN @ |->
                      [@[q] EXCEPT !.state = AgeState(@), !.handle = AgeHandle(@)]],
       !.tasks = [t \in DOMAIN @ |-> [@[t] EXCEPT !.start = AgeState(@)]]]

Tick == Commit(tick(World))

\* the timeout set by enable_gc fires: its closure evicts the Query's key
gc_fire(W, q) ==
    evict_query([W EXCEPT !.queries[q].handle = Some([pending |-> FALSE, remaining |-> 0])],
                W.queries[q].key)

GcDue(Q) == IsSome(Q.handle) /\ Unwrap(Q.handle).pending /\ Unwrap(Q.handle).remaining = 0

GcFire(q) == GcDue(queries[q]) /\ Commit(gc_fire(World, q))

Init ==
    /\ cache = << >>
    /\ consumers = [c \in Consumers |-> [status |-> "new", received |-> << >>]]
    /\ size = 0
    /\ resets = 0
    /\ persister = FALSE
    /\ queries = << >>
    /\ observers = [o \in Slots |-> FreeObserver]
    /\ tasks = [t \in TaskIds |-> FreeTask]
    /\ gc = GcNone
    /\ gcCalls = << >>
    /\ gcPrev = GcNone
    /\ probe = NoProbe

Next ==
    \/ \E k \in Keys : GetOrCreateQuery(k)
    \/ \E k \in Keys : EvictQuery(k)
    \/ ClearAllQueries
    \/ ResetSize
    \/ InvalidateAllQueries
    \/ \E c \in Consumers : RegisterObserver(c)
    \/ \E c \in Consumers : UnregisterObserver(c)
    \/ AddPersister
    \/ RemovePersister
    \/ \E q \in Instances, result \in Persisted : Hydrate(q, result)
    \/ \E o \in Slots, k \in Keys, options \in FetcherOptions : UseQuery(o, k, options)
    \/ \E o \in Slots : UseQueryEffect(o)
    \/ \E o \in Slots, options \in PassiveOptions, query \in Bindings :
          NewPassive(o, options, query)
    \/ \E o \in Slots, query \in Bindings : UpdateQuery(o, query)
    \/ \E o \in Slots : Cleanup(o)
    \/ \E o \in Slots : RefetchTick(o)
    \/ \E q \in Instances : Execute(q)
    \/ \E q \in Instances : Cancel(q)
    \/ \E q \in Instances : MarkInvalid(q)
    \/ \E t \in TaskIds : TaskStart(t)
    \/ \E t \in TaskIds, v \in Values : FetchResolve(t, v)
    \/ \E t \in TaskIds : TaskResume(t)
    \/ Tick
    \/ \E q \in Instances : GcFire(q)

Spec == Init /\ [][Next]_vars

\* ------------------------------------------------------------- specifications
\* Spec is the whole program.  TLC explores it in parts: each specification
\* below is the program restricted to the operations and inputs that bear on
\* one group of properties.

\* One key, observers that differ in stale_time and refetch_interval: the
\* execution and cancellation of a Query, with hydration.
ExecKey == Min(Keys)
ExecOptions ==
    {[gc_time |-> None, stale_time |-> s, refetch_interval |-> r] :
        s \in {None, Some(1)}, r \in RefetchIntervals}

NextExec ==
    \/ AddPersister
    \/ \E q \in Instances, result \in Persisted : Hydrate(q, result)
    \/ \E o \in Slots, options \in ExecOptions : UseQuery(o, ExecKey, options)
    \/ \E o \in Slots : UseQueryEffect(o)
    \/ \E o \in Slots : Cleanup(o)
    \/ \E o \in Slots : RefetchTick(o)
    \/ \E q \in Instances : Execute(q)
    \/ \E q \in Instances : Cancel(q)
    \/ \E q \in Instances : MarkInvalid(q)
    \/ \E t \in TaskIds : TaskStart(t)
    \/ \E t \in TaskIds, v \in Values : FetchResolve(t, v)
    \/ \E t \in TaskIds : TaskResume(t)
    \/ Tick

SpecExec == Init /\ [][NextExec]_vars

\* One key, observers with and without a fetcher that differ in gc_time and
\* stale_time: attaching, cleanup, the GC policy and the GC timer, with
\* eviction and the fresh Query that replaces an evicted one.
ObsValue == Min(Values)
ObsFetcherOptions ==
    {[gc_time |-> g, stale_time |-> s, refetch_interval |-> None] :
        g \in GcTimes, s \in {None, Some(1)}}
ObsPassiveOptions ==
    {[gc_time |-> g, stale_time |-> None, refetch_interval |-> None] : g \in GcTimes}

NextObs ==
    \/ EvictQuery(ExecKey)
    \/ \E o \in Slots, options \in ObsFetcherOptions : UseQuery(o, ExecKey, options)
    \/ \E o \in Slots : UseQueryEffect(o)
    \/ \E o \in Slots, options \in ObsPassiveOptions, query \in Bindings :
          NewPassive(o, options, query)
    \/ \E o \in Slots : Cleanup(o)
    \/ \E q \in Instances : MarkInvalid(q)
    \/ \E t \in TaskIds : TaskStart(t)
    \/ \E t \in TaskIds : FetchResolve(t, ObsValue)
    \/ \E t \in TaskIds : TaskResume(t)
    \/ Tick
    \/ \E q \in Instances : GcFire(q)

SpecObs == Init /\ [][NextObs]_vars

\* Every key, no fetch: the registry, its size counter and its events, with
\* passive observers to arm GC timers and a persister to hydrate.
CacheOptions == {[gc_time |-> Some(1), stale_time |-> None, refetch_interval |-> None]}
CachePersisted == {None, Some(QueryData(PersistedValue, 0))}

NextCache ==
    \/ \E k \in Keys : GetOrCreateQuery(k)
    \/ \E k \in Keys : EvictQuery(k)
    \/ ClearAllQueries
    \/ ResetSize
    \/ InvalidateAllQueries
    \/ AddPersister
    \/ RemovePersister
    \/ \E q \in Instances, result \in CachePersisted : Hydrate(q, result)
    \/ \E o \in Slots, query \in Bindings, options \in CacheOptions :
          NewPassive(o, options, query)
    \/ \E o \in Slots : Cleanup(o)
    \/ Tick
    \/ \E q \in Instances : GcFire(q)

SpecCache == Init /\ [][NextCache]_vars

\* One key, fetcher-carrying observers that differ in stale_time: loads,
\* invalidation and the passing of time, for is_stale and needs_execute.
StaleOptions ==
    {[gc_time |-> None, stale_time |-> s, refetch_interval |-> None] : s \in StaleTimes}

NextStale ==
    \/ \E o \in Slots, options \in StaleOptions : UseQuery(o, ExecKey, options)
    \/ \E o \in Slots : UseQueryEffect(o)
    \/ \E o \in Slots : Cleanup(o)
    \/ \E q \in Instances : MarkInvalid(q)
    \/ \E t \in TaskIds : TaskStart(t)
    \/ \E t \in TaskIds : FetchResolve(t, ObsValue)
    \/ \E t \in TaskIds : TaskResume(t)
    \/ Tick

SpecStale == Init /\ [][NextStale]_vars

\* Every key, fetcher-carrying observers and Queries without any: loads and
\* cancellations in several partitions, for invalidate_all_queries.
InvalOptions == {NoOptions}

NextInval ==
    \/ \E k \in Keys : GetOrCreateQuery(k)
    \/ \E k \in Keys : EvictQuery(k)
    \/ InvalidateAllQueries
    \/ \E o \in Slots, k \in Keys, options \in InvalOptions : UseQuery(o, k, options)
    \/ \E o \in Slots : UseQueryEffect(o)
    \/ \E o \in Slots : Cleanup(o)
    \/ \E q \in Instances : Cancel(q)
    \/ \E t \in TaskIds : TaskStart(t)
    \/ \E t \in TaskIds : FetchResolve(t, ObsValue)
    \/ \E t \in TaskIds : TaskResume(t)

SpecInval == Init /\ [][NextInval]_vars

\* Every key, observers with a fetcher that differ in stale_time: an observer
\* is bound to another Query, or to none, while loads run and time passes.
RebindOptions ==
    {[gc_time |-> Some(1), stale_time |-> Some(1), refetch_interval |-> None]}

NextRebind ==
    \/ \E k \in Keys : GetOrCreateQuery(k)
    \/ \E o \in Slots, k \in Keys, options \in RebindOptions : UseQuery(o, k, options)
    \/ \E o \in Slots : UseQueryEffect(o)
    \/ \E o \in Slots, query \in Bindings : UpdateQuery(o, query)
    \/ \E q \in Instances : MarkInvalid(q)
    \/ \E t \in TaskIds : TaskStart(t)
    \/ \E t \in TaskIds : FetchResolve(t, ObsValue)
    \/ \E t \in TaskIds : TaskResume(t)
    \/ Tick

SpecRebind == Init /\ [][NextRebind]_vars

\* One key, observers built with use_query (each subscribes when it is built,
\* so the observers of a Query subscribed in the order of their ids) and
\* passive ones: execute() and the fetcher it picks.
NextPick ==
    \/ \E o \in Slots, options \in InvalOptions : UseQuery(o, ExecKey, options)
    \/ \E o \in Slots : UseQueryEffect(o)
    \/ \E o \in Slots, options \in InvalOptions, query \in Bindings :
          NewPassive(o, options, query)
    \/ \E o \in Slots : Cleanup(o)
    \/ \E q \in Instances, fetcher \in {None} \cup {Some(o) : o \in Slots} :
          ExecutePick(q, fetcher)
    \/ \E q \in Instances : Cancel(q)
    \/ \E t \in TaskIds : TaskStart(t)
    \/ \E t \in TaskIds : FetchResolve(t, ObsValue)
    \/ \E t \in TaskIds : TaskResume(t)

SpecPick == Init /\ [][NextPick]_vars

\* Every key, no fetch: CacheObservers come and go while Queries are created,
\* hydrated, invalidated and evicted.
NextReplay ==
    \/ \E k \in Keys : GetOrCreateQuery(k)
    \/ \E k \in Keys : EvictQuery(k)
    \/ InvalidateAllQueries
    \/ \E c \in Consumers : RegisterObserver(c)
    \/ \E c \in Consumers : UnregisterObserver(c)
    \/ AddPersister
    \/ \E q \in Instances, result \in CachePersisted : Hydrate(q, result)

SpecReplay == Init /\ [][NextReplay]_vars

\* One key, fetcher-carrying observers: CacheObservers register while Queries
\* are created, fetched and evicted, fetches in flight included.
NextEvents ==
    \/ \E c \in Consumers : RegisterObserver(c)
    \/ \E o \in Slots, options \in InvalOptions : UseQuery(o, ExecKey, options)
    \/ EvictQuery(ExecKey)
    \/ \E t \in TaskIds : TaskStart(t)
    \/ \E t \in TaskIds : FetchResolve(t, ObsValue)
    \/ \E t \in TaskIds : TaskResume(t)

SpecEvents == Init /\ [][NextEvents]_vars

\* One key, one fetcher-carrying observer, with hydration: executions run to
\* their end.  The executor polls every spawned task that can make progress,
\* and a fetcher's future that is awaited resolves unless the execution is
\* cancelled first.
NextLive ==
    \/ AddPersister
    \/ \E q \in Instances, result \in CachePersisted : Hydrate(q, result)
    \/ \E o \in Slots, options \in InvalOptions : UseQuery(o, ExecKey, options)
    \/ \E q \in Instances : Execute(q)
    \/ \E q \in Instances : Cancel(q)
    \/ \E q \in Instances : MarkInvalid(q)
    \/ \E t \in TaskIds : TaskStart(t)
    \/ \E t \in TaskIds : FetchResolve(t, ObsValue)
    \/ \E t \in TaskIds : TaskResume(t)

SpecLive ==
    /\ Init
    /\ [][NextLive]_vars
    /\ \A t \in TaskIds : /\ WF_vars(TaskStart(t))
                          /\ WF_vars(FetchResolve(t, ObsValue))
                          /\ WF_vars(TaskResume(t))

\* A GarbageCollector on its own, as test_gc builds it: update_gc_time is
\* applied to every sequence of at most MaxGcCalls requests.
GcRequests == {None} \cup {Some(d) : d \in Durations \cup {FiveSecs, TenSecs}}

GcUpdate(gc_time) ==
    /\ Len(gcCalls) < MaxGcCalls
    /\ gc' = update_gc_time(gc, gc_time)
    /\ gcPrev' = gc
    /\ gcCalls' = Append(gcCalls, gc_time)
    /\ UNCHANGED << cache, consumers, size, resets, persister, queries, observers, tasks,
                    probe >>

NextGc == \E gc_time \in GcRequests : GcUpdate(gc_time)

SpecGc == Init /\ [][NextGc]_vars

\* Query::is_stale on its own: it is applied to every updated_at, every list
\* of at most MaxStaleObs observers' stale_time and every now, in milliseconds.
\* Instants are far from the ends of i64; a Duration is any the type holds
MaxStaleObs == 2
InstantsMs == 0 .. (2 ^ (IntBits - 2) - 1)
DurationsMs == 0 .. (2 ^ IntBits - 1)
StaleTimeLists ==
    UNION {[1..n -> {None} \cup {Some(d) : d \in DurationsMs}] : n \in 0..MaxStaleObs}

IsStaleProbe(updated_at, stale_times, now, checked) ==
    /\ ~probe.called
    /\ IsSome(updated_at) => Unwrap(updated_at) <= now
    /\ probe' = [called |-> TRUE, updated_at |-> updated_at, stale_times |-> stale_times,
                 now |-> now, checked |-> checked, result |-> is_stale_at(updated_at, stale_times, now, checked)]
    /\ UNCHANGED << cache, consumers, size, resets, persister, queries, observers, tasks,
                    gc, gcCalls, gcPrev >>

NextStaleFn ==
    \E updated_at \in {None} \cup {Some(u) : u \in InstantsMs},
       stale_times \in StaleTimeLists, now \in InstantsMs, checked \in BOOLEAN :
        IsStaleProbe(updated_at, stale_times, now, checked)

SpecStaleFn == Init /\ [][NextStaleFn]_vars

\* ------------------------------------------------------------------ properties
TasksOf(W, q, pcs) == {t \in TaskIds : W.tasks[t].q = q /\ W.tasks[t].pc \in pcs}

\* no execution of q is spawned, running or holding the token
Idle(W, q) ==
    /\ TasksOf(W, q, {"spawned", "awaiting"}) = {}
    /\ ~IsSome(W.queries[q].current_request)

\* C1 (single-flight).  In every reachable state each Query has at most one
\* execute_query task between its fetcher call and its completion; and from
\* every state in which a Query with a fetcher-carrying observer is idle, two
\* execute() calls in a row, with both spawned tasks then run up to their
\* await in either order, leave exactly one fetcher invocation outstanding.
C1_SingleFlight ==
    \A q \in Instances :
        /\ Cardinality(TasksOf(World, q, {"awaiting"})) <= 1
        /\ (Idle(World, q) /\ HasFetcher(World, q)
              /\ Cardinality(TasksOf(World, 0, {"free"})) >= 2)
           => LET W == execute(execute(World, q), q)
                  ts == TasksOf(W, q, {"spawned"})
              IN  /\ Cardinality(ts) = 2
                  /\ \A t1 \in ts : \A t2 \in ts \ {t1} :
                        LET W2 == execute_query_start(execute_query_start(W, t1), t2)
                        IN  /\ Cardinality(TasksOf(W2, q, {"awaiting"})) = 1
                            /\ TasksOf(W2, q, {"spawned"}) = {}

\* a fetch is outstanding and cancelled but not yet resumed, and a second
\* execution of the same Query has been spawned
C1_Witness ==
    \E t1 \in TaskIds, t2 \in TaskIds :
        /\ tasks[t1].pc = "awaiting"
        /\ tasks[t1].cancelled
        /\ tasks[t2].pc = "spawned"
        /\ tasks[t2].q = tasks[t1].q

\* C2.  mark_invalid() on Loaded(d) stores Invalid(d), returns true and calls
\* execute() (a task is spawned whenever a subscribed observer carries a
\* fetcher); on any other state it returns false, changes nothing and
\* announces nothing.
C2_MarkInvalid ==
    \A q \in Instances :
        LET s == queries[q].state
            W == mark_invalid(World, q)
        IN  IF s.tag = "Loaded"
            THEN /\ mark_invalid_result(World, q)
                 /\ W.queries[q].state = Invalid(s.data)
                 /\ W.events = << EvUpdated(q) >>
                 /\ (HasFetcher(World, q) /\ ~W.overflow) => SpawnedFor(World, W, q)
            ELSE /\ ~mark_invalid_result(World, q)
                 /\ W = World

\* mark_invalid has acted: a Query is Invalid and its re-execution is spawned
C2_Witness ==
    \E q \in Instances : \E t \in TaskIds :
        /\ queries[q].state.tag = "Invalid"
        /\ tasks[t].pc = "spawned"
        /\ tasks[t].q = q

\* a fetch that was cancelled while its fetcher has not resolved
CancelledFirst(task) == task.pc = "awaiting" /\ task.cancelled /\ ~IsSome(task.fetch)

\* C3.  When a cancelled fetch whose fetcher has not resolved is resumed, a
\* first load leaves the Query Created and a refresh leaves it Loaded(d), d
\* being the data (value and updated_at) the Query held when the refresh began.
C3_CancelReverts ==
    \A t \in TaskIds :
        CancelledFirst(tasks[t]) =>
            LET q == tasks[t].q
                W == execute_query_resume(World, t)
            IN  /\ tasks[t].branch = "first" => W.queries[q].state = Created
                /\ tasks[t].branch = "refresh" =>
                      W.queries[q].state = Loaded(tasks[t].start.data)

\* C4.  When a fetch whose fetcher has resolved with value v is resumed, the
\* Query becomes Loaded(v, now), whichever state the fetch started from and
\* whether or not a cancellation has arrived since.
C4_SuccessLoads ==
    \A t \in TaskIds :
        (tasks[t].pc = "awaiting" /\ IsSome(tasks[t].fetch)) =>
            LET q == tasks[t].q
                W == execute_query_resume(World, t)
            IN  /\ tasks[t].start.tag \in {"Created", "Loaded", "Invalid"}
                /\ W.queries[q].state = Loaded(QueryData(Unwrap(tasks[t].fetch), 0))
                /\ ~IsSome(W.queries[q].current_request)

\* a refresh of an Invalid Query has resolved after it was cancelled, with a
\* value other than the one it refreshes
C4_Witness ==
    \E t \in TaskIds :
        /\ tasks[t].pc = "awaiting"
        /\ tasks[t].start.tag = "Invalid"
        /\ tasks[t].cancelled
        /\ IsSome(tasks[t].fetch)
        /\ Unwrap(tasks[t].fetch) # tasks[t].start.data.value

\* the order of GcTime: Unset < Bounded(d), increasing in d, < Unbounded
GcRank(g) == IF g.kind = "None" THEN 0 ELSE IF g.kind = "Some" THEN 1 ELSE 2
GcLeq(a, b) ==
    \/ GcRank(a) < GcRank(b)
    \/ GcRank(a) = GcRank(b) /\ (a.kind = "Some" => a.d <= b.d)

TestGcCalls == << Some(TenSecs), Some(FiveSecs), None >>

\* C8.  No update_gc_time call lowers the policy, and test_gc's sequence
\* Some(10s), Some(5s), None yields Bounded(10s), Bounded(10s), Unbounded.
C8_GcMonotonic ==
    /\ GcLeq(gcPrev, gc)
    /\ gcCalls = SubSeq(TestGcCalls, 1, 1) => gc = GcSome(TenSecs)
    /\ gcCalls = SubSeq(TestGcCalls, 1, 2) => gc = GcSome(TenSecs)
    /\ gcCalls = TestGcCalls => gc = GcNever

C8_Witness == gcCalls = TestGcCalls /\ gc = GcNever /\ gcPrev = GcSome(TenSecs)

\* the merge table of update_gc_time
MergeTable(cur, req) ==
    CASE cur.kind = "None" /\ IsSome(req) -> GcSome(Unwrap(req))
      [] cur.kind = "None" /\ ~IsSome(req) -> GcNone
      [] cur.kind = "Some" /\ IsSome(req) ->
            GcSome(IF Unwrap(req) > cur.d THEN Unwrap(req) ELSE cur.d)
      [] cur.kind = "Some" /\ ~IsSome(req) -> GcNever
      [] cur.kind = "Never" -> GcNever

\* C9.  Each update_gc_time call takes the policy to the entry of the merge
\* table for the policy before it and the request.
C9_MergeTable ==
    Len(gcCalls) > 0 => gc = MergeTable(gcPrev, gcCalls[Len(gcCalls)])

\* a request for unlimited retention has met a Bounded policy
C9_Witness ==
    /\ Len(gcCalls) > 1
    /\ gcPrev.kind = "Some"
    /\ gcCalls[Len(gcCalls)] = None
    /\ gc = GcNever

\* C5.  From every state, attaching a fetcher-carrying observer with use_query
\* (with_fetcher, the first read, then the effect's update_query with the same
\* Query) to a Query for which needs_execute() holds once the observer is
\* subscribed starts an execution of it: attaching spawns an execute_query
\* task, unless an execution of the Query is under way already.
C5_AttachExecutes ==
    \A o \in Slots : \A options \in ObsFetcherOptions :
        NextSlot(o) =>
            LET W1 == get_or_create_query(World, ExecKey)
                q == Unwrap(get_query(W1, ExecKey))
                W2 == use_query(World, o, ExecKey, options)
                W3 == use_query_effect(W2, o)
                subscribed == subscribe([W1 EXCEPT !.observers[o].options = options], q, o)
            IN  (~W1.overflow /\ ~W3.overflow /\ needs_execute(subscribed, q))
                   => \/ SpawnedFor(World, W3, q)
                      \/ (q \in Instances /\ ~Idle(World, q))

\* C6.  From every state, unsubscribing the last observer of a registered
\* Query whose policy is Bounded(d) leaves a GC timer pending, whatever the
\* Query's state.
C6_LastUnsubscribeArms ==
    \A q \in Instances : \A o \in Slots :
        (/\ queries[q].observers = {o}
         /\ queries[q].gc_time.kind = "Some"
         /\ get_query(World, queries[q].key) = Some(q))
        => LET W == unsubscribe(World, q, o)
           IN  IsSome(W.queries[q].handle) /\ Unwrap(W.queries[q].handle).pending

\* C7.  The entry counter equals the sum of the sizes of the partitions.
C7_SizeIsSum == size = real_size(cache)

\* the policy retains at least as long as the request gc_time asks
\* (None asks for unlimited retention; an Unset policy never evicts)
NoNarrower(policy, gc_time) ==
    IF IsSome(gc_time)
    THEN policy.kind = "Some" => policy.d >= Unwrap(gc_time)
    ELSE policy.kind # "Some"

\* C10.  The policy of a Query is no narrower than the gc_time of any
\* observer subscribed to it.
C10_PolicyCoversRequests ==
    \A q \in Instances : \A o \in queries[q].observers :
        NoNarrower(queries[q].gc_time, observers[o].options.gc_time)

\* C11.  The GC policy is a one-way ratchet: from every state, unsubscribe
\* and cleanup of any observer leave the policy of every Query as it is, and
\* no step of the program lowers the policy of a Query (Unbounded stays
\* Unbounded, a Bounded duration never shrinks), also after the observer that
\* asked for it is gone.
C11_PolicyRatchet ==
    /\ [](\A q \in Instances : \A o \in Slots :
            /\ unsubscribe(World, q, o).queries[q].gc_time = queries[q].gc_time
            /\ cleanup(World, o).queries[q].gc_time = queries[q].gc_time
            /\ on_cleanup(World, o).queries[q].gc_time = queries[q].gc_time)
    /\ [][\A q \in Instances : GcLeq(queries[q].gc_time, queries'[q].gc_time)]_vars

\* the only observer of an Unbounded Query, which had asked for a Bounded
\* retention first, has been cleaned up
C11_Witness ==
    \E q \in Instances :
        /\ queries[q].gc_time = GcNever
        /\ queries[q].observers = {}
        /\ \E o \in Slots : observers[o].status = "cleaned"

\* the stale_time values of the probed call
ProbedStaleTimes ==
    {Unwrap(probe.stale_times[i]) :
        i \in {j \in DOMAIN probe.stale_times : IsSome(probe.stale_times[j])}}

\* C12.  Whenever is_stale() returns, it returns true exactly when the Query
\* holds data, some subscribed observer specifies a stale_time, and
\* updated_at + the least such stale_time <= now.
C12_IsStaleExact ==
    (probe.called /\ ~probe.result.panicked) =>
        (probe.result.stale <=>
            /\ IsSome(probe.updated_at)
            /\ ProbedStaleTimes # {}
            /\ Unwrap(probe.updated_at) + Min(ProbedStaleTimes) <= probe.now)

\* is_stale() on instants agrees with C12's condition, and with the model's
\* is_stale on ages, whenever every stale_time is below the range of i64 by
\* more than the instants
StaleInRangeExact ==
    (probe.called /\ \A d \in ProbedStaleTimes : d < 2 ^ (IntBits - 2)) =>
        /\ ~probe.result.panicked
        /\ probe.result.stale <=>
              /\ IsSome(probe.updated_at)
              /\ ProbedStaleTimes # {}
              /\ time_until_stale(probe.now - Unwrap(probe.updated_at),
                                  Min(ProbedStaleTimes)) = 0

RECURSIVE Ticks(_, _)
\* k units of time pass with nothing else happening
Ticks(W, k) == IF k = 0 THEN W ELSE Ticks(tick(W), k - 1)

\* the stale_time values of the observers subscribed to q
StaleTimesOf(W, q) ==
    {Unwrap(W.observers[o].options.stale_time) :
        o \in {p \in W.queries[q].observers : IsSome(W.observers[p].options.stale_time)}}

\* C13.  When a load completes successfully on a Query with a subscribed
\* observer whose stale_time is d (5s in the spec's example; d the least one
\* subscribed), is_stale() is false at once and after every time k < d that
\* passes with no further update, and true once k >= d has passed.
C13_StaleAfterStaleTime ==
    \A t \in TaskIds :
        (tasks[t].pc = "awaiting" /\ IsSome(tasks[t].fetch)
           /\ StaleTimesOf(World, tasks[t].q) # {}) =>
            LET q == tasks[t].q
                W == execute_query_resume(World, t)
                d == Min(StaleTimesOf(World, q))
            IN  /\ ~is_stale(W, q)
                /\ \A k \in 0..MaxAge : is_stale(Ticks(W, k), q) <=> k >= d

\* a load completed, and since then exactly the longest stale_time, which the
\* only subscribed observer asks for, has passed: the Query has become stale
C13_Witness ==
    \E q \in Instances :
        /\ queries[q].state.tag = "Loaded"
        /\ queries[q].state.data.age = MaxDur
        /\ StaleTimesOf(World, q) = {MaxDur}
        /\ is_stale(World, q)

\* C14.  needs_execute() is true exactly when the state is Created, the state
\* is Invalid, or is_stale() holds; ensure_execute() does what execute() does
\* when needs_execute() is true (a task is spawned if a subscribed observer
\* carries a fetcher) and nothing otherwise.
C14_NeedsExecute ==
    \A q \in Instances :
        LET needs == \/ queries[q].state = Created
                     \/ queries[q].state.tag = "Invalid"
                     \/ is_stale(World, q)
            W == ensure_execute(World, q)
        IN  /\ needs_execute(World, q) <=> needs
            /\ needs => W = execute(World, q)
            /\ (needs /\ HasFetcher(World, q) /\ ~W.overflow) => SpawnedFor(World, W, q)
            /\ ~needs => W = World

\* a Loaded Query with a fetcher-carrying observer has become stale, with a
\* task slot free: only is_stale() makes needs_execute() true
C14_Witness ==
    \E q \in Instances :
        /\ queries[q].state.tag = "Loaded"
        /\ is_stale(World, q)
        /\ HasFetcher(World, q)
        /\ Idle(World, q)

\* C15.  From every state in which key k is registered with Query q,
\* evict_query(k) followed by get_or_create_query(k) returns an instance other
\* than q, in state Created and with no observers, while q itself, still held
\* by its observers, keeps its state.
C15_EvictionRoundTrip ==
    \A k \in Keys :
        IsSome(get_query(World, k)) =>
            LET q == Unwrap(get_query(World, k))
                W1 == evict_query(World, k)
                W2 == get_or_create_query(W1, k)
            IN  ~W2.overflow =>
                    LET fresh == Unwrap(get_query(W2, k))
                    IN  /\ get_query(W1, k) = None
                        /\ fresh # q
                        /\ fresh \notin Instances
                        /\ W2.queries[fresh].state = Created
                        /\ W2.queries[fresh].observers = {}
                        /\ W2.queries[q] = queries[q]

\* the registered Query is Loaded and held by an observer, and a further
\* instance can be created
C15_Witness ==
    \E k \in Keys :
        /\ IsSome(get_query(World, k))
        /\ queries[Unwrap(get_query(World, k))].state.tag = "Loaded"
        /\ queries[Unwrap(get_query(World, k))].observers # {}
        /\ Len(queries) < MaxInst

\* C16.  evict_query(k) on a registered key removes that entry and no other,
\* announces exactly Removed(k), lowers the size counter by one but not below
\* zero, and returns true; on a key not registered it returns false, announces
\* nothing and changes nothing.
C16_EvictQuery ==
    \A k \in Keys :
        LET W == evict_query(World, k)
        IN  IF IsSome(get_query(World, k))
            THEN /\ evict_query_result(World, k)
                 /\ get_query(W, k) = None
                 /\ \A other \in Keys \ {k} : get_query(W, other) = get_query(World, other)
                 /\ W.events = << EvRemoved(k) >>
                 /\ W.size = (IF size > 0 THEN size - 1 ELSE 0)
                 /\ W.queries = queries
            ELSE /\ ~evict_query_result(World, k)
                 /\ W = World

\* a key is registered while the size counter is 0, and another key is not
\* registered: the eviction that must not go below zero, and the absent key
C16_Witness ==
    /\ size = 0
    /\ \E k \in Keys : IsSome(get_query(World, k))
    /\ \E k \in Keys : get_query(World, k) = None

RECURSIVE RunResets(_)
\* every queued size reset has run, with nothing else happening
RunResets(W) == IF W.resets = 0 THEN W ELSE RunResets(reset_size(W))

\* C17.  From every state with no Query registered, clear_all_queries()
\* announces nothing, leaves the registry empty and the size counter as it is,
\* which is 0 when no reset is queued and 0 once the queued resets have run;
\* and from every state, a second clear_all_queries() right after the first
\* leaves the registry, the counter and the event trace as the first left them.
C17_ClearIdempotent ==
    LET W1 == clear_all_queries(World)
        W2 == clear_all_queries(W1)
    IN  /\ (CachedKeys(World) = {} /\ ~W1.overflow) =>
              /\ W1.events = << >>
              /\ W1.cache = cache
              /\ W1.size = size
              /\ resets = 0 => W1.size = 0
              /\ RunResets(W1).size = 0
        /\ (~W1.overflow /\ ~W2.overflow) =>
              /\ W2.events = W1.events
              /\ W2.cache = W1.cache
              /\ W2.size = W1.size
              /\ W2.queries = W1.queries
              /\ RunResets(W2).size = RunResets(W1).size
              /\ RunResets(W2).cache = RunResets(W1).cache

\* a clear has emptied a registry that held a Query, its reset is still
\* queued, and a second clear can follow
C17_Witness ==
    /\ CachedKeys(World) = {}
    /\ DOMAIN cache # {}
    /\ resets = 1
    /\ size > 0

\* C18.  clear_all_queries() empties every partition, announces one Removed
\* event for each Query that was registered and nothing else, and queues the
\* reset after which the size counter is 0.
C18_ClearAll ==
    LET W == clear_all_queries(World)
    IN  ~W.overflow =>
            /\ DOMAIN W.cache = DOMAIN cache
            /\ \A t \in DOMAIN W.cache : DOMAIN W.cache[t] = {}
            /\ Len(W.events) = Cardinality(CachedKeys(World))
            /\ \A k \in CachedKeys(World) :
                  \E i \in 1..Len(W.events) : W.events[i] = EvRemoved(k)
            /\ W.resets = resets + 1
            /\ RunResets(W).size = 0

\* every key was registered when a clear emptied the registry; its reset is
\* still queued
C18_Witness ==
    /\ CachedKeys(World) = {}
    /\ resets > 0
    /\ size = NumKeys
    /\ Len(queries) = NumKeys

\* C19.  get_or_create_query(k) on a key that is not registered creates one
\* new Created Query, registers it under k alone, announces exactly
\* Created, raises the size counter by one and starts a hydration read if and
\* only if a persister is installed; on a registered key it returns the
\* registered instance and changes and announces nothing.
C19_GetOrCreate ==
    \A k \in Keys :
        LET W == get_or_create_query(World, k)
        IN  IF IsSome(get_query(World, k))
            THEN /\ W = World
                 /\ get_query(W, k) = get_query(World, k)
            ELSE ~W.overflow =>
                    LET q == Unwrap(get_query(W, k))
                    IN  /\ q \notin Instances
                        /\ Len(W.queries) = Len(queries) + 1
                        /\ W.queries[q] = NewQuery(k, persister)
                        /\ W.queries[q].hydrating <=> persister
                        /\ \A p \in Instances : W.queries[p] = queries[p]
                        /\ \A other \in Keys \ {k} :
                              get_query(W, other) = get_query(World, other)
                        /\ W.events = << EvCreated(q) >>
                        /\ W.size = size + 1

\* a Query created while a persister was installed is registered and still
\* hydrating, by now without a persister, and another key is not registered
C19_Witness ==
    /\ ~persister
    /\ \E k \in Keys : /\ IsSome(get_query(World, k))
                       /\ queries[Unwrap(get_query(World, k))].hydrating
    /\ \E k \in Keys : get_query(World, k) = None
    /\ Len(queries) < MaxInst

\* C20.  When the hydration read of a Query completes with data h: a Loaded
\* Query keeps its state and nothing is announced; a Query that is Loading or
\* Fetching becomes Fetching(h), its fetch and its token staying as they are;
\* a Query in any other state (Created, Invalid) becomes Loaded(h).
C20_Hydration ==
    \A q \in Instances : \A result \in Persisted \ {None} :
        queries[q].hydrating =>
            LET s == queries[q].state
                h == Unwrap(result)
                W == hydrate(World, q, result)
            IN  /\ s.tag = "Loaded" =>
                      /\ W.queries[q].state = s
                      /\ W.events = << >>
                      /\ W.notified = {}
                /\ s.tag \in {"Loading", "Fetching"} =>
                      /\ W.queries[q].state = Fetching(h)
                      /\ W.tasks = tasks
                      /\ W.queries[q].current_request = queries[q].current_request
                /\ s.tag \in {"Created", "Invalid"} => W.queries[q].state = Loaded(h)
                /\ ~W.queries[q].hydrating

\* a hydration read completed during a first load: the Query is Fetching the
\* persisted data while the task of the first load still awaits its fetcher
C20_Witness ==
    \E q \in Instances : \E t \in TaskIds :
        /\ ~queries[q].hydrating
        /\ queries[q].state.tag = "Fetching"
        /\ queries[q].state.data.value = PersistedValue
        /\ queries[q].current_request = Some(t)
        /\ tasks[t].pc = "awaiting"
        /\ tasks[t].branch = "first"
\* the instances the registry holds
Registered(W) == {W.cache[TypeOf(k)][k] : k \in CachedKeys(W)}

\* C21 as stated.  After invalidate_all_queries() every registered Query is
\* Invalid, whatever state it was in.
C21_AllInvalid ==
    LET W == invalidate_all_queries(World)
    IN  ~W.overflow => \A q \in Registered(World) : W.queries[q].state.tag = "Invalid"

\* C21 as amended.  After invalidate_all_queries() every registered Query that
\* was Loaded(d) is Invalid(d) and has had execute() called (a task is spawned
\* for it whenever a subscribed observer carries a fetcher); every Query in
\* any other state, and every Query not registered, is as it was, with no
\* execution spawned; one Updated event is announced per Query marked, and the
\* registry and its size counter are unchanged.
C21_InvalidateLoaded ==
    LET W == invalidate_all_queries(World)
        marked == {q \in Registered(World) : queries[q].state.tag = "Loaded"}
    IN  ~W.overflow =>
            /\ \A q \in marked :
                  /\ W.queries[q] = [queries[q] EXCEPT !.state = Invalid(queries[q].state.data)]
                  /\ HasFetcher(World, q) <=> SpawnedFor(World, W, q)
            /\ \A q \in Instances \ marked :
                  /\ W.queries[q] = queries[q]
                  /\ ~SpawnedFor(World, W, q)
            /\ Len(W.events) = Cardinality(marked)
            /\ \A q \in marked : \E i \in 1..Len(W.events) : W.events[i] = EvUpdated(q)
            /\ W.cache = cache
            /\ W.size = size
            /\ W.observers = observers

\* invalidate_all_queries has acted on two partitions: the Queries of two keys
\* of different partitions are Invalid, each with its re-execution spawned
C21_Witness ==
    \E k1 \in Keys, k2 \in Keys : \E t1 \in TaskIds, t2 \in TaskIds :
        /\ TypeOf(k1) # TypeOf(k2)
        /\ IsSome(get_query(World, k1)) /\ IsSome(get_query(World, k2))
        /\ queries[Unwrap(get_query(World, k1))].state.tag = "Invalid"
        /\ queries[Unwrap(get_query(World, k2))].state.tag = "Invalid"
        /\ tasks[t1].pc = "spawned" /\ tasks[t1].q = Unwrap(get_query(World, k1))
        /\ tasks[t2].pc = "spawned" /\ tasks[t2].q = Unwrap(get_query(World, k2))

\* C22.  From every state, subscribing an observer that is already in the
\* Query's observer set changes nothing (the observer set, the GC timer and
\* the GC policy included) and announces nothing; subscribing one that is not
\* inserts it, leaves no GC timer held and announces exactly one ObserverAdded
\* event, with the Query's key and the observer's options; so subscribing
\* twice in a row is subscribing once.  An observer that no_fetcher builds on
\* a Query is subscribed with the options it was built with.
C22_SubscribeIdempotent ==
    \A q \in Instances : \A o \in Slots :
        LET W == subscribe(World, q, o)
        IN  /\ o \in queries[q].observers => W = World
            /\ o \notin queries[q].observers =>
                  /\ W.queries[q].observers = queries[q].observers \cup {o}
                  /\ W.queries[q].handle = None
                  /\ W.events = << EvObserverAdded(queries[q].key, observers[o].options) >>
                  /\ W.queries[q].state = queries[q].state
                  /\ \A p \in Instances \ {q} : W.queries[p] = queries[p]
            /\ subscribe(W, q, o) = [W EXCEPT !.events = W.events]
            /\ \A options \in ObsPassiveOptions :
                  (NextSlot(o) /\ o \notin queries[q].observers) =>
                      LET W1 == no_fetcher(World, o, options, Some(q))
                      IN  /\ o \in W1.queries[q].observers
                          /\ W1.queries[q].handle = None
                          /\ W1.events = << EvObserverAdded(queries[q].key, options) >>

\* a live observer is subscribed to one Query while another Query, which it
\* is not subscribed to, has no observer and a GC timer pending
C22_Witness ==
    \E q1 \in Instances, q2 \in Instances : \E o \in Slots :
        /\ observers[o].status = "alive"
        /\ o \in queries[q1].observers
        /\ queries[q2].observers = {}
        /\ IsSome(queries[q2].handle)
        /\ Unwrap(queries[q2].handle).pending

C24_FirstSubscribed ==
    (probe.called /\ IsSome(probe.fetcher)) => Unwrap(probe.fetcher) = Min(probe.carriers)

\* C24 as amended.  execute() uses the fetcher of one of the subscribed
\* observers that carry one, and with it spawns one execution while leaving
\* the state, the token and the observers as they are; if no subscribed
\* observer carries a fetcher it uses none and changes nothing at all.
C24_ExecuteFetcher ==
    /\ probe.called =>
          IF probe.carriers = {} THEN probe.fetcher = None
          ELSE IsSome(probe.fetcher) /\ Unwrap(probe.fetcher) \in probe.carriers
    /\ \A q \in Instances :
          LET W == execute(World, q)
          IN  IF \E o \in queries[q].observers : observers[o].fetcher
              THEN ~W.overflow =>
                      /\ Cardinality(TasksOf(W, q, {"spawned"}))
                            = Cardinality(TasksOf(World, q, {"spawned"})) + 1
                      /\ W.queries = queries
                      /\ W.observers = observers
                      /\ W.events = << >>
              ELSE W = World

\* execute() was called on a Query with two fetcher-carrying observers and
\* used the fetcher of the one that subscribed last; the execution it spawned
\* holds the token and awaits that fetcher
C24_Witness ==
    /\ probe.called
    /\ Cardinality(probe.carriers) = 2
    /\ IsSome(probe.fetcher)
    /\ Unwrap(probe.fetcher) # Min(probe.carriers)
    /\ \E t \in TaskIds : /\ tasks[t].pc = "awaiting"
                          /\ tasks[t].q = probe.q
                          /\ queries[probe.q].current_request = Some(t)

\* C25.  From every state, cancel() on a Query whose token is installed
\* empties the token slot, signals the execution that holds the token (which
\* is awaiting its fetcher, so the signal is delivered) and returns true,
\* leaving the state as it is; cancel() on a Query with no token returns false
\* and changes nothing; so a second cancel() right after a first returns
\* false and changes nothing.
C25_Cancel ==
    \A q \in Instances :
        LET cur == queries[q].current_request
            W == cancel(World, q)
        IN  /\ IF IsSome(cur)
               THEN /\ cancel_result(World, q)
                    /\ W.queries[q].current_request = None
                    /\ tasks[Unwrap(cur)].pc = "awaiting"
                    /\ tasks[Unwrap(cur)].q = q
                    /\ W.tasks[Unwrap(cur)].cancelled
                    /\ \A t \in TaskIds \ {Unwrap(cur)} : W.tasks[t] = tasks[t]
                    /\ W.queries[q].state = queries[q].state
                    /\ W.events = << >>
               ELSE /\ ~cancel_result(World, q)
                    /\ W = World
            /\ ~cancel_result(W, q)
            /\ cancel(W, q) = W

\* cancel() has acted on a refresh: the execution still awaits its fetcher,
\* signalled, and the token slot of its Query is empty
C25_Witness ==
    \E t \in TaskIds :
        /\ tasks[t].pc = "awaiting"
        /\ tasks[t].branch = "refresh"
        /\ tasks[t].cancelled
        /\ ~IsSome(tasks[t].fetch)
        /\ queries[tasks[t].q].current_request = None

\* the interval callback of observer o would call execute()
RefetchArmed(W, o) == W.observers[o].refetch /\ IsSome(W.observers[o].query)

\* C26.  From every state, when the cleanup handler of a live observer has run
\* (its listener removed, then QueryObserver::cleanup()), the observer is in
\* no Query's observer set, it is bound to no Query, its refetch interval is
\* cleared and its listener set is empty; QueryObserver::cleanup() itself
\* leaves it in no observer set, unbound and without interval.  In every
\* reachable state a cleaned-up observer is in no observer set, has no
\* listener and no interval whose tick would call execute().
C26_CleanupDetaches ==
    \A o \in Slots :
        /\ observers[o].status = "alive" =>
              LET W == on_cleanup(World, o)
                  W1 == cleanup(World, o)
              IN  /\ \A q \in Instances : o \notin W.queries[q].observers
                  /\ W.observers[o].query = None
                  /\ ~W.observers[o].refetch
                  /\ ~RefetchArmed(W, o)
                  /\ W.observers[o].listeners = 0
                  /\ \A q \in Instances : o \notin W1.queries[q].observers
                  /\ W1.observers[o].query = None
                  /\ ~W1.observers[o].refetch
        /\ observers[o].status = "cleaned" =>
              /\ \A q \in Instances : o \notin queries[q].observers
              /\ ~RefetchArmed(World, o)
              /\ observers[o].listeners = 0

\* an observer has been cleaned up while another, with a refetch interval and
\* a listener, is still subscribed to the Query and an execution is under way
C26_Witness ==
    \E o1 \in Slots, o2 \in Slots : \E q \in Instances : \E t \in TaskIds :
        /\ observers[o1].status = "cleaned"
        /\ observers[o2].status = "alive"
        /\ observers[o2].refetch
        /\ observers[o2].listeners = 1
        /\ queries[q].observers = {o2}
        /\ tasks[t].pc = "awaiting" /\ tasks[t].q = q

IsPrefix(a, b) == Len(a) <= Len(b) /\ SubSeq(b, 1, Len(a)) = a

\* C27.  From every state, register_observer delivers to the consumer it
\* registers one Created event for each Query in the registry, and nothing
\* else, delivers nothing to any other consumer and changes nothing else; a
\* consumer has received nothing before it is registered; and in every step
\* that registers a consumer the events it has received are exactly that
\* replay, while no step takes back an event a consumer has received: what a
\* consumer receives begins with the replay.
C27_RegisterReplays ==
    /\ [](\A c \in Consumers :
            consumers[c].status = "new" =>
                LET W == register_observer(World, c)
                    got == W.consumers[c].received
                IN  /\ consumers[c].received = << >>
                    /\ W.consumers[c].status = "registered"
                    /\ Len(got) = Cardinality(Registered(World))
                    /\ \A q \in Registered(World) :
                          \E i \in 1..Len(got) : got[i] = EvCreated(q)
                    /\ \A d \in Consumers \ {c} : W.consumers[d] = consumers[d]
                    /\ W.events = << >>
                    /\ [W EXCEPT !.consumers = consumers, !.under = {}] = World)
    /\ [][\A c \in Consumers :
            /\ IsPrefix(consumers[c].received, consumers'[c].received)
            /\ (consumers[c].status = "new" /\ consumers'[c].status = "registered") =>
                  /\ Len(consumers'[c].received) = Cardinality(Registered(World))
                  /\ \A q \in Registered(World) :
                        \E i \in 1..Len(consumers'[c].received) :
                            consumers'[c].received[i] = EvCreated(q)
                  /\ \A d \in Consumers \ {c} : consumers'[d] = consumers[d]]_vars

\* one consumer saw the first Query created and then updated by its
\* hydration; another was registered after that: it got the Query's Created
\* event as a replay, and then the Removed event of its eviction
C27_Witness ==
    \E c \in Consumers, d \in Consumers :
        /\ consumers[c].status = "registered"
        /\ consumers[d].status = "registered"
        /\ Len(consumers[d].received) >= 2
        /\ consumers[d].received[1] = EvCreated(1)
        /\ consumers[d].received[2] = EvUpdated(1)
        /\ Len(consumers[c].received) >= 2
        /\ consumers[c].received[1] = EvCreated(1)
        /\ consumers[c].received[2].type = "Removed"

\* the GC timer of Q is set and has not fired
TimerPending(Q) == IsSome(Q.handle) /\ Unwrap(Q.handle).pending

\* C28.  In every reachable state a Query with a subscribed observer holds no
\* GC timer; and a step arms the GC timer of a Query only by taking its last
\* observer out of the observer set.
C28_NoTimerWhileObserved ==
    /\ [](\A q \in Instances : queries[q].observers # {} => queries[q].handle = None)
    /\ [][\A q \in Instances :
            (~TimerPending(queries[q]) /\ TimerPending(queries'[q])) =>
                /\ queries[q].observers # {}
                /\ queries'[q].observers = {}]_vars

\* the only Query there is has data, a Bounded policy and a live observer,
\* and no timer, after another observer of it was cleaned up
C28_Witness ==
    /\ Len(queries) = 1
    /\ queries[1].state.tag = "Loaded"
    /\ queries[1].gc_time.kind = "Some"
    /\ queries[1].handle = None
    /\ \E o1 \in Slots, o2 \in Slots :
          /\ o1 < o2
          /\ observers[o1].status = "cleaned"
          /\ queries[1].observers = {o2}
          /\ observers[o2].status = "alive"

\* C29.  From every state in which a Query has no observer (the states in
\* which unsubscribe calls enable_gc()): enable_gc() changes nothing when a
\* timer handle is held or the policy is Unset or Unbounded; otherwise it
\* leaves one timer pending, due after max(0, updated_at + gc_time - now);
\* disable_gc() leaves no handle, and changes nothing when none is held.
C29_EnableGc ==
    \A q \in Instances :
        queries[q].observers = {} =>
            LET Q == queries[q]
                W == enable_gc(World, q)
            IN  /\ IF IsSome(Q.handle) \/ Q.gc_time.kind # "Some"
                   THEN W = World
                   ELSE /\ TimerPending(W.queries[q])
                        /\ HasData(Q.state) =>
                              Unwrap(W.queries[q].handle).remaining
                                 = Max0(Q.gc_time.d - Q.state.data.age)
                        /\ [W EXCEPT !.queries[q].handle = None] = World
                /\ disable_gc(World, q).queries[q].handle = None
                /\ Q.handle = None => disable_gc(World, q) = World

\* C30.  An execution that acquires the token never finds the Query Loading
\* or Fetching: in every reachable state, a spawned execute_query task whose
\* Query has an empty token slot (the task would acquire the token if it ran
\* now) would not take the 'already loading' arm.
C30_NeverAlreadyLoading ==
    \A t \in TaskIds :
        (tasks[t].pc = "spawned" /\ ~IsSome(queries[tasks[t].q].current_request))
            => ExecBranch(queries[tasks[t].q].state) # "already"

\* C31.  Listeners and cache-event consumers are invoked only after the lock
\* guarding the mutated state (a Query's observer set, the registry's
\* partition map) has been released: no operation, applied to any reachable
\* state, calls a handler while it holds a Mutex.
C31_NotifyAfterUnlock ==
    /\ \A q \in Instances : mark_invalid(World, q).under = {}
    /\ \A t \in TaskIds :
          /\ tasks[t].pc = "spawned" => execute_query_start(World, t).under = {}
          /\ Ready(tasks[t]) => execute_query_resume(World, t).under = {}
    /\ \A q \in Instances, o \in Slots :
          /\ subscribe(World, q, o).under = {}
          /\ unsubscribe(World, q, o).under = {}
    /\ \A k \in Keys : get_or_create_query(World, k).under = {}

\* C32.  In every step, a Query that becomes Invalid was Loaded(d) before the
\* step and is Invalid(d) after it, the step is mark_invalid on that Query
\* and nothing else, and the same step has called execute() on it: with a
\* fetcher-carrying observer subscribed an execute_query task is spawned.  A
\* Query is never created Invalid.
C32_InvalidOnlyByMarkInvalid ==
    [][\A q \in DOMAIN queries' :
          (/\ queries'[q].state.tag = "Invalid"
           /\ q \in Instances => queries[q].state.tag # "Invalid")
          => /\ q \in Instances
             /\ queries[q].state.tag = "Loaded"
             /\ queries'[q].state = Invalid(queries[q].state.data)
             /\ queries' = mark_invalid(World, q).queries
             /\ tasks' = mark_invalid(World, q).tasks
             /\ observers' = observers
             /\ HasFetcher(World, q) =>
                   \E t \in TaskIds : /\ tasks[t].pc = "free"
                                      /\ tasks'[t].pc = "spawned"
                                      /\ tasks'[t].q = q]_vars

\* the execution attempted by mark_invalid has started on the Invalid Query
C32_Witness ==
    \E t \in TaskIds :
        /\ tasks[t].pc = "awaiting"
        /\ tasks[t].branch = "refresh"
        /\ tasks[t].start.tag = "Invalid"

\* C33.  A GC timer that fires never removes from the registry a Query with
\* at least one subscribed observer, whichever instance armed the timer: an
\* instance still registered, or one evicted since and replaced under its key.
C33_GcSparesObserved ==
    \A q \in Instances :
        GcDue(queries[q]) =>
            LET W == gc_fire(World, q)
            IN  \A k \in Keys :
                   (/\ IsSome(get_query(World, k))
                    /\ queries[Unwrap(get_query(World, k))].observers # {})
                   => get_query(W, k) = get_query(World, k)

\* C34.  In every step, a Query that holds data (Fetching, Loaded, Invalid)
\* still holds data after the step: it never moves to Created or Loading.  In
\* particular the data hydration installs during a first load survives the
\* cancellation of that load.
C34_DataIsKept ==
    [][\A q \in Instances :
          HasData(queries[q].state) => HasData(queries'[q].state)]_vars

\* C35.  In the events a registered consumer has received, a Removed(K) is
\* followed by no Updated of a Query of key K before a Created of a Query of
\* key K: a fetch in flight on an evicted Query announces no update.
C35_NoUpdateAfterRemoved ==
    \A c \in Consumers :
        LET r == consumers[c].received
        IN  \A i \in DOMAIN r, j \in DOMAIN r :
               (/\ i < j
                /\ r[i].type = "Removed"
                /\ r[j].type = "Updated"
                /\ queries[r[j].q].key = r[i].key)
               => \E m \in (i + 1)..(j - 1) :
                     r[m].type = "Created" /\ queries[r[m].q].key = r[i].key

\* C36.  From every state, after update_query(Some(q)) by a live observer o,
\* o is a member of q's observer set and of no other Query's, also when q is
\* the fresh instance that replaced, under the same key, the evicted Query o
\* is bound to.
C36_UpdateQueryRebinds ==
    \A o \in Slots : \A q \in Instances :
        observers[o].status = "alive" =>
            LET W == update_query(World, o, Some(q))
            IN  ~W.overflow =>
                   /\ o \in W.queries[q].observers
                   /\ \A p \in Instances \ {q} : o \notin W.queries[p].observers

\* C37.  The GC policy does not depend on the order of subscriptions: from
\* every policy a GarbageCollector reaches, update_gc_time(a) then
\* update_gc_time(b) leaves the policy that update_gc_time(b) then
\* update_gc_time(a) leaves, for all requests a and b.
C37_OrderIndependent ==
    \A a \in GcRequests, b \in GcRequests :
        update_gc_time(update_gc_time(gc, a), b) = update_gc_time(update_gc_time(gc, b), a)

\* C39.  Whenever set_state invokes a listener with state s, the state stored
\* in the Query at that moment equals s: this holds of every listener
\* invocation made by an execution that starts or resumes and by
\* mark_invalid, from every state.
C39_ListenerSeesStored ==
    /\ \A t \in TaskIds :
          /\ tasks[t].pc = "spawned" =>
                \A n \in execute_query_start(World, t).notified : n[3] = n[2]
          /\ Ready(tasks[t]) =>
                \A n \in execute_query_resume(World, t).notified : n[3] = n[2]
    /\ \A q \in Instances : \A n \in mark_invalid(World, q).notified : n[3] = n[2]

\* the Query of instance q exists and is Loading or Fetching
Busy(q) == q \in Instances /\ queries[q].state.tag \in {"Loading", "Fetching"}

\* C38.  With every spawned task polled when it can make progress and every
\* awaited fetcher future resolving unless its execution is cancelled first:
\* a Query that is Loading or Fetching eventually is neither; the step in
\* which it leaves takes it to Loaded or to Created; and every step that ends
\* an execution which held the token leaves the Query's token slot empty.
C38_ExecutionsEnd ==
    /\ \A q \in 1..MaxInst : Busy(q) ~> ~Busy(q)
    /\ [][\A q \in Instances :
             (queries[q].state.tag \in {"Loading", "Fetching"}
              /\ queries'[q].state.tag \notin {"Loading", "Fetching"})
             => queries'[q].state.tag \in {"Loaded", "Created"}]_vars
    /\ [][\A t \in TaskIds :
             (/\ tasks[t].pc # "free"
              /\ tasks'[t].pc = "free"
              /\ \/ tasks[t].pc = "awaiting"
                 \/ ~IsSome(queries[tasks[t].q].current_request))
             => queries'[tasks[t].q].current_request = None]_vars

\* a fetch has run to its end: the Query holds the fetched value, no
\* execution is spawned or in flight, and the token slot is empty
C38_Witness ==
    \E q \in Instances :
        /\ queries[q].state = Loaded(QueryData(ObsValue, 0))
        /\ queries[q].current_request = None
        /\ \A t \in TaskIds : tasks[t].pc = "free"
====
